---- MODULE Spec2Model ----
(***************************************************************************)
(* Model of code.py, the Fruit Jam AU file player: run() brings up the     *)
(* TLV320 DAC (configure_dac), decodes demo.au into 16-bit PCM             *)
(* (load_au_file) and plays the AU clip and a WAV clip in a loop.          *)
(*                                                                         *)
(* Time is counted in ticks of 1/8000 s (one sample period at 8 kHz), so   *)
(* every sleep of the program is a whole number of ticks.                  *)
(* A Python name that is not bound yet is None == <<>>, a bound one is the *)
(* one-element tuple Some(v) == <<v>>.                                     *)
(* A 32-bit unsigned header field is the pair <<high 16 bits, low 16       *)
(* bits>>, so that 0xFFFFFFFF keeps its width.                             *)
(***************************************************************************)
EXTENDS Integers, Sequences, FiniteSets, TLC

VARIABLES
  pc,        \* position of the single thread of control in run()
  err,       \* message of the exception that ended the run, "" while none
  clock,     \* time.monotonic(), in ticks
  dacLog,    \* the codec operations done so far, in order, with their time
  dac,       \* run(): dac, bound when configure_dac returns
  file,      \* bytes of the file open in load_au_file
  fpos,      \* position of the open file
  ioLog,     \* the read and seek calls made on the open file, in order
  header,    \* load_au_file: header (the bytes read)
  hdr,       \* load_au_file: magic, offset, size, encoding, rate, channels
  pcm,       \* load_au_file / run(): pcm
  lut,       \* load_au_file: lut (lut[b + 1] is the sample of byte b)
  i,         \* load_au_file: i, samples produced so far
  au,        \* run(): au, the RawSample clip
  play_time, \* run(): play_time, in ticks
  wav,       \* run(): wav, the WaveFile clip
  playLog    \* the play calls received by the I2S sink, in order

vars == <<pc, err, clock, dacLog, dac, file, fpos, ioLog, header, hdr, pcm,
          lut, i, au, play_time, wav, playLog>>

---------------------------------------------------------------------------
(* Bounds of the model *)

\* largest header.size of a supported file, and most bytes after the header
MaxSize == 3
\* a sleep of d ticks returns after d ticks, or late, after d + MaxJitter
MaxJitter == 1
\* play calls after which the playback loop is cut off
MaxPlays == 4
\* longest WAV clip, in seconds
MaxWavSecs == 3
\* longest AU clip of the playback specification, in half seconds
MaxClipHalfSecs == 2

---------------------------------------------------------------------------
(* Program constants *)

\* ticks per second: the 8000 Hz of "len(pcm) / 8000"
TicksPerSecond == 8000
\* f.read(24)
HeaderLen == 24
\* min(1024, size - i)
ChunkSize == 1024
\* range(256), bytearray(512)
LutSize == 256
\* time.sleep(2) in run()
StartupTicks == 16000
\* time.sleep(0.35) in configure_dac()
SettleTicks == 2800
\* time.sleep(1) after configure_dac()
StabilizeTicks == 8000
\* time.sleep(0.5) before each play
PrePlayTicks == 4000
\* the 1 of time.sleep(play_time + 1)
GuardTicks == 8000

None == <<>>
Some(v) == <<v>>

Min(a, b) == IF a < b THEN a ELSE b
Max(a, b) == IF a > b THEN a ELSE b

RECURSIVE Pow2(_)
Pow2(n) == IF n = 0 THEN 1 ELSE 2 * Pow2(n - 1)

---------------------------------------------------------------------------
(* Python integer operators *)

\* a & b, for b >= 0 (a may be negative: two's complement of unbounded width)
RECURSIVE BitAnd(_, _)
BitAnd(a, b) ==
  IF b = 0 THEN 0
  ELSE (a % 2) * (b % 2) + 2 * BitAnd(a \div 2, b \div 2)

\* ~a
BitNot(a) == (-a) - 1

\* a << n
Shl(a, n) == a * Pow2(n)

\* a >> n
Shr(a, n) == a \div Pow2(n)

---------------------------------------------------------------------------
(* 32-bit unsigned header fields *)

\* the four big-endian bytes of n, 0 <= n < 2^31
BE32(n) == << n \div 16777216, (n \div 65536) % 256, (n \div 256) % 256, n % 256 >>

\* the field value n, 0 <= n < 2^31, as a pair of 16-bit halves
U32(n) == << n \div 65536, n % 65536 >>

\* 0xffffffff
U32Max == << 65535, 65535 >>

\* the integer of a field value below 2^31
ToInt(w) == w[1] * 65536 + w[2]

\* one ">I" of struct.unpack: the k-th (from 0) big-endian word of bytes b
UnpackWord(b, k) ==
  << b[4 * k + 1] * 256 + b[4 * k + 2], b[4 * k + 3] * 256 + b[4 * k + 4] >>

\* struct.unpack(">6I", header)
Unpack(b) ==
  [ magic    |-> UnpackWord(b, 0),
    offset   |-> UnpackWord(b, 1),
    size     |-> UnpackWord(b, 2),
    encoding |-> UnpackWord(b, 3),
    rate     |-> UnpackWord(b, 4),
    channels |-> UnpackWord(b, 5) ]

\* 0x2e736e64
AuMagic == U32(779316836)

---------------------------------------------------------------------------
(* Error messages of load_au_file *)

MsgShort     == "file is not a valid AU file"
MsgMagic     == "Not an AU file (magic bytes are wrong)"
MsgEncoding  == "AU file sample encoding is not u-law"
MsgFormat    == "AU file is not 8000 Hz mono"
MsgSize      == "AU file with header.size=-1 is not supported"
MsgTruncated == "Truncated AU file data"
\* an exception of the codec driver (an I2C transfer that fails)
MsgDevice    == "OSError"

\* the header checks after struct.unpack, in the order of the code:
\* the message of the first check that fails, "" when all pass
HeaderCheckSwapped(h) ==
  IF h.encoding # U32(1) THEN MsgEncoding
  ELSE IF h.magic # AuMagic THEN MsgMagic
  ELSE IF h.rate # U32(8000) \/ h.channels # U32(1) THEN MsgFormat
  ELSE IF h.size = U32Max THEN MsgSize
  ELSE ""

HeaderCheck(h) ==
  IF h.magic # AuMagic THEN MsgMagic
  ELSE IF h.encoding # U32(1) THEN MsgEncoding
  ELSE IF h.rate # U32(8000) \/ h.channels # U32(1) THEN MsgFormat
  ELSE IF h.size = U32Max THEN MsgSize
  ELSE ""

---------------------------------------------------------------------------
(* The u-law lookup table *)

\* the body of "for i in range(256)": the value stored in lut[b]
LutEntryVariant(b) ==
  LET u    == BitAnd(BitNot(b), 255)
      sign == BitAnd(u, 128)
      exp  == BitAnd(Shr(u, 4), 7)
      mant == BitAnd(u, 15)
      s    == Shl(Shl(mant, 4) + 8, exp) - 132
  IN  IF sign # 0 THEN -s ELSE s

\* the exponent taken with the mask 0x0F, which lets the sign bit into it
LutEntryWideExp(b) ==
  LET u    == BitAnd(BitNot(b), 255)
      sign == BitAnd(u, 128)
      exp  == BitAnd(Shr(u, 4), 15)
      mant == BitAnd(u, 15)
      s    == Shl(Shl(mant, 3) + 132, exp) - 132
  IN  IF sign # 0 THEN -s ELSE s

LutEntry(b) ==
  LET u    == BitAnd(BitNot(b), 255)
      sign == BitAnd(u, 128)
      exp  == BitAnd(Shr(u, 4), 7)
      mant == BitAnd(u, 15)
      s    == Shl(Shl(mant, 3) + 132, exp) - 132
  IN  IF sign # 0 THEN -s ELSE s

\* the table after the whole loop
BuildLut == [ k \in 1..LutSize |-> LutEntry(k - 1) ]

---------------------------------------------------------------------------
(* The files the program may find *)

ByteVals == { 0, 128 }

BodiesOfLen(n) == [ 1..n -> ByteVals ]

Bodies == UNION { BodiesOfLen(n) : n \in 0..MaxSize }

MagicBytes == { BE32(779316836), BE32(0) }
OffsetBytes == { BE32(HeaderLen), BE32(HeaderLen + 1) }
SizeBytes == { BE32(n) : n \in 0..MaxSize } \cup { << 255, 255, 255, 255 >> }
EncodingBytes == { BE32(1), BE32(2) }
RateBytes == { BE32(8000), BE32(44100) }
ChannelBytes == { BE32(1), BE32(2) }

Headers ==
  { m \o o \o s \o e \o r \o c :
      m \in MagicBytes, o \in OffsetBytes, s \in SizeBytes,
      e \in EncodingBytes, r \in RateBytes, c \in ChannelBytes }

ValidHeader == BE32(779316836) \o BE32(HeaderLen) \o BE32(MaxSize)
                 \o BE32(1) \o BE32(8000) \o BE32(1)

\* a payload longer than one chunk of 1024 bytes
BigSize == ChunkSize + MaxSize

BigHeader == BE32(779316836) \o BE32(HeaderLen) \o BE32(BigSize)
               \o BE32(1) \o BE32(8000) \o BE32(1)

BigBody(n) == [ k \in 1..n |-> IF k % 2 = 1 THEN 0 ELSE 128 ]

\* the long file cut one byte short, whole, and with one byte too many
BigFiles == { BigHeader \o BigBody(n) : n \in (BigSize - 1)..(BigSize + 1) }

\* a file cut inside its header, and a whole header followed by the body
AuFiles ==
  { SubSeq(ValidHeader, 1, n) : n \in 0..(HeaderLen - 1) }
    \cup { h \o b : h \in Headers, b \in Bodies }
    \cup BigFiles

WavDurations == { s * TicksPerSecond : s \in 1..MaxWavSecs }

---------------------------------------------------------------------------
(* Helpers *)

\* time.sleep(d): returns after at least d ticks
Sleep(d) == \E j \in { 0, MaxJitter } : clock' = clock + d + j

\* an exception nobody catches: it ends run(), and so the program
Raise(msg) == pc' = "crashed" /\ err' = msg

\* f.read(n): the sizes a read of n bytes can return with avail bytes left.
\* An empty result is returned only at the end of the file. A read returns
\* up to MaxSize bytes fewer than it could: every size, for the small files.
ReadSizes(n, avail) ==
  IF n = 0 \/ avail <= 0 THEN { 0 }
  ELSE { k \in 1..Min(n, avail) : k >= Min(n, avail) - MaxSize }

Avail == Max(0, Len(file) - fpos)

---------------------------------------------------------------------------
(* Initial state: run() has not started *)

Init ==
  /\ pc = "start"
  /\ err = ""
  /\ clock = 0
  /\ dacLog = << >>
  /\ dac = None
  /\ file = << >>
  /\ fpos = 0
  /\ ioLog = << >>
  /\ header = << >>
  /\ hdr = None
  /\ pcm = None
  /\ lut = << >>
  /\ i = 0
  /\ au = None
  /\ play_time = 0
  /\ wav = None
  /\ playLog = << >>

dacVars == << dacLog, dac >>
loadVars == << file, fpos, ioLog, header, hdr, pcm, lut, i >>
playVars == << au, play_time, wav, playLog >>

---------------------------------------------------------------------------
(* run(), up to the DAC *)

\* one moment please: gc, time.sleep(2), init_display
Startup ==
  /\ pc = "start"
  /\ Sleep(StartupTicks)
  /\ pc' = "buses"
  /\ UNCHANGED << err, dacVars, loadVars, playVars >>

\* banner, I2C(), I2SOut(...), PWMOut(...)
SetupBuses ==
  /\ pc = "buses"
  /\ pc' = "dac_init"
  /\ UNCHANGED << err, clock, dacVars, loadVars, playVars >>

---------------------------------------------------------------------------
(* configure_dac(i2c, 8000, MCLK_HZ) *)

\* one operation on the codec: it is done and logged, control moves on
DacOp(from, to, op, val) ==
  /\ pc = from
  /\ dacLog' = Append(dacLog, [op |-> op, val |-> val, t |-> clock])
  /\ pc' = to
  /\ UNCHANGED << err, clock, dac, loadVars, playVars >>

\* dac = TLV320DAC3100(i2c)
DacInit == DacOp("dac_init", "dac_speaker", "TLV320DAC3100", 0)

\* the digital gain written where the speaker should be switched off
DacVolumeFirst == DacOp("dac_speaker", "dac_headphone", "dac_volume", -3)

\* dac.speaker_output = False
DacSpeakerOff == DacOp("dac_speaker", "dac_headphone", "speaker_output", 0)

\* dac.headphone_output = True
DacHeadphoneOn == DacOp("dac_headphone", "dac_volume", "headphone_output", 1)

\* dac.dac_volume = -3
DacVolume == DacOp("dac_volume", "dac_hp_volume", "dac_volume", -3)

\* dac.headphone_volume = 0
DacHeadphoneVolume == DacOp("dac_hp_volume", "dac_clocks", "headphone_volume", 0)

\* dac.configure_clocks(sample_rate=sample_rate, mclk_freq=MCLK_HZ)
DacConfigureClocks == DacOp("dac_clocks", "dac_settle", "configure_clocks", 8000)

\* positions at which configure_dac talks to the codec
DacHwSteps == { "dac_init", "dac_speaker", "dac_headphone", "dac_volume",
                "dac_hp_volume", "dac_clocks" }

\* the exception of the codec operation noted and the operation tried again
DacFailRetry ==
  /\ pc \in DacHwSteps
  /\ err' = MsgDevice
  /\ UNCHANGED << pc, clock, dacVars, loadVars, playVars >>

\* the codec operation at hand raises: nothing in code.py catches it
DacFail ==
  /\ pc \in DacHwSteps
  /\ Raise(MsgDevice)
  /\ UNCHANGED << clock, dacVars, loadVars, playVars >>

\* a settle wait of 0.035 s in place of 0.35 s
DacSettleShort ==
  /\ pc = "dac_settle"
  /\ Sleep(SettleTicks \div 10)
  /\ dacLog' = Append(dacLog, [op |-> "sleep", val |-> clock' - clock, t |-> clock'])
  /\ dac' = Some("TLV320DAC3100")
  /\ pc' = "stabilize"
  /\ UNCHANGED << err, loadVars, playVars >>

\* time.sleep(0.35); return dac
DacSettle ==
  /\ pc = "dac_settle"
  /\ Sleep(SettleTicks)
  /\ dacLog' = Append(dacLog, [op |-> "sleep", val |-> clock' - clock, t |-> clock'])
  /\ dac' = Some("TLV320DAC3100")
  /\ pc' = "stabilize"
  /\ UNCHANGED << err, loadVars, playVars >>

\* time.sleep(1) after configure_dac
Stabilize ==
  /\ pc = "stabilize"
  /\ Sleep(StabilizeTicks)
  /\ pc' = "au_open"
  /\ UNCHANGED << err, dacVars, loadVars, playVars >>

---------------------------------------------------------------------------
(* load_au_file("demo.au") *)

\* with open(filename, 'rb') as f
LoadOpen ==
  /\ pc = "au_open"
  /\ \E f \in AuFiles : file' = f
  /\ fpos' = 0
  /\ pc' = "au_header"
  /\ UNCHANGED << err, clock, dacVars, ioLog, header, hdr, pcm, lut, i, playVars >>

\* header = f.read(24); if len(header) != 24: raise
\* (a read of a file on disk is short only at the end of the file)
ReadHeader ==
  /\ pc = "au_header"
  /\ LET n == Min(HeaderLen, Avail) IN
       /\ header' = SubSeq(file, fpos + 1, fpos + n)
       /\ fpos' = fpos + n
       /\ ioLog' = Append(ioLog, [op |-> "read", pos |-> fpos, req |-> HeaderLen, got |-> n])
       /\ IF n # HeaderLen
            THEN Raise(MsgShort)
            ELSE pc' = "au_unpack" /\ err' = err
  /\ UNCHANGED << clock, dacVars, file, hdr, pcm, lut, i, playVars >>

\* the seek to the data offset done before the header is checked
CheckHeaderAfterSeek ==
  /\ pc = "au_unpack"
  /\ hdr' = Some(Unpack(header))
  /\ fpos' = ToInt(Unpack(header).offset)
  /\ ioLog' = Append(ioLog, [op |-> "seek", pos |-> ToInt(Unpack(header).offset),
                             req |-> 0, got |-> 0])
  /\ LET e == HeaderCheck(Unpack(header)) IN
       IF e # ""
         THEN Raise(e)
         ELSE pc' = "au_alloc" /\ err' = err
  /\ UNCHANGED << clock, dacVars, file, header, pcm, lut, i, playVars >>

\* struct.unpack(">6I", header) and the four checks that follow it
CheckHeader ==
  /\ pc = "au_unpack"
  /\ hdr' = Some(Unpack(header))
  /\ LET e == HeaderCheck(Unpack(header)) IN
       IF e # ""
         THEN Raise(e)
         ELSE pc' = "au_alloc" /\ err' = err
  /\ UNCHANGED << clock, dacVars, file, fpos, ioLog, header, pcm, lut, i, playVars >>

\* header.size and header.offset, once the header has passed the checks
Size == ToInt(hdr[1].size)
Offset == ToInt(hdr[1].offset)

\* pcm = array.array("h", bytearray(size * 2))
AllocPcm ==
  /\ pc = "au_alloc"
  /\ pcm' = Some([ k \in 1..Size |-> 0 ])
  /\ pc' = "au_lut"
  /\ UNCHANGED << err, clock, dacVars, file, fpos, ioLog, header, hdr, lut, i, playVars >>

\* lut = array.array("h", bytearray(512)); for i in range(256): ...
GenerateLut ==
  /\ pc = "au_lut"
  /\ lut' = BuildLut
  /\ pc' = "au_seek"
  /\ UNCHANGED << err, clock, dacVars, file, fpos, ioLog, header, hdr, pcm, i, playVars >>

\* one turn of "for i in range(256)": the next entry of the table
LutStep ==
  /\ pc = "lut_loop"
  /\ Len(lut) < LutSize
  /\ lut' = Append(lut, LutEntry(Len(lut)))
  /\ UNCHANGED << pc, err, clock, dacVars, file, fpos, ioLog, header, hdr, pcm, i, playVars >>

\* f.seek(offset); i = 0
SeekData ==
  /\ pc = "au_seek"
  /\ fpos' = Offset
  /\ ioLog' = Append(ioLog, [op |-> "seek", pos |-> Offset, req |-> 0, got |-> 0])
  /\ i' = 0
  /\ pc' = "au_loop"
  /\ UNCHANGED << err, clock, dacVars, file, header, hdr, pcm, lut, playVars >>

\* the rest of the payload asked for in one read: size - i
ChunkRequestAll == Size - i

\* min(1024, size - i)
ChunkRequest == Min(ChunkSize, Size - i)

\* the chunk written from the start of the buffer: pcm[j] = lut_mv[data_mv[j]]
DecodeIntoNoOffset(buf, at, data) ==
  [ k \in 1..Len(buf) |->
      IF k <= Len(data) THEN lut[data[k] + 1] ELSE buf[k] ]

\* for j in range(len(data_mv)): pcm[i + j] = lut_mv[data_mv[j]]
DecodeInto(buf, at, data) ==
  [ k \in 1..Len(buf) |->
      IF at < k /\ k <= at + Len(data) THEN lut[data[k - at] + 1] ELSE buf[k] ]

\* the turn of the loop without "i += len(data_mv)"
DecodeChunkNoAdvance ==
  /\ pc = "au_loop"
  /\ i < Size
  /\ \E n \in ReadSizes(ChunkRequest, Avail) :
       /\ n > 0
       /\ pcm' = Some(DecodeInto(pcm[1], i, SubSeq(file, fpos + 1, fpos + n)))
       /\ fpos' = fpos + n
       /\ ioLog' = Append(ioLog, [op |-> "read", pos |-> fpos, req |-> ChunkRequest, got |-> n])
  /\ UNCHANGED << pc, err, clock, dacVars, file, header, hdr, lut, i, playVars >>

\* one turn of "while i < size" with a read that returns data
DecodeChunk ==
  /\ pc = "au_loop"
  /\ i < Size
  /\ \E n \in ReadSizes(ChunkRequest, Avail) :
       /\ n > 0
       /\ pcm' = Some(DecodeInto(pcm[1], i, SubSeq(file, fpos + 1, fpos + n)))
       /\ i' = i + n
       /\ fpos' = fpos + n
       /\ ioLog' = Append(ioLog, [op |-> "read", pos |-> fpos, req |-> ChunkRequest, got |-> n])
  /\ UNCHANGED << pc, err, clock, dacVars, file, header, hdr, lut, playVars >>

\* raising as soon as fewer bytes are left than the chunk asks for
DecodeTruncatedEager ==
  /\ pc = "au_loop"
  /\ i < Size
  /\ Avail < ChunkRequest
  /\ ioLog' = Append(ioLog, [op |-> "read", pos |-> fpos, req |-> ChunkRequest, got |-> 0])
  /\ Raise(MsgTruncated)
  /\ UNCHANGED << clock, dacVars, file, fpos, header, hdr, pcm, lut, i, playVars >>

\* one turn of "while i < size" with a read that returns nothing: raise
DecodeTruncated ==
  /\ pc = "au_loop"
  /\ i < Size
  /\ 0 \in ReadSizes(ChunkRequest, Avail)
  /\ ioLog' = Append(ioLog, [op |-> "read", pos |-> fpos, req |-> ChunkRequest, got |-> 0])
  /\ Raise(MsgTruncated)
  /\ UNCHANGED << clock, dacVars, file, fpos, header, hdr, pcm, lut, i, playVars >>

\* the loop ends, "return pcm": the file is closed and the frame is gone
LoadReturn ==
  /\ pc = "au_loop"
  /\ ~(i < Size)
  /\ file' = << >>
  /\ fpos' = 0
  /\ ioLog' = << >>
  /\ header' = << >>
  /\ hdr' = None
  /\ lut' = << >>
  /\ i' = 0
  /\ pc' = "rawsample"
  /\ UNCHANGED << err, clock, dacVars, pcm, playVars >>

---------------------------------------------------------------------------
(* run(), the clips and the playback loop *)

\* au = audiocore.RawSample(pcm, channel_count=1, sample_rate=8000)
\* play_time = len(pcm) / 8000
MakeRawSample ==
  /\ pc = "rawsample"
  /\ au' = Some([name |-> "au", dur |-> (Len(pcm[1]) * TicksPerSecond) \div 8000])
  /\ play_time' = (Len(pcm[1]) * TicksPerSecond) \div 8000
  /\ pc' = "wavefile"
  /\ UNCHANGED << err, clock, dacVars, loadVars, wav, playLog >>

\* wav = audiocore.WaveFile("demo_16bit.wav"): a clip of the file's own length
OpenWav ==
  /\ pc = "wavefile"
  /\ \E d \in WavDurations : wav' = Some([name |-> "wav", dur |-> d])
  /\ pc' = "loop_au"
  /\ UNCHANGED << err, clock, dacVars, loadVars, au, play_time, playLog >>

\* time.sleep(0.5); audio.play(clip)
Play(from, to, clip) ==
  /\ pc = from
  /\ Len(playLog) < MaxPlays
  /\ Sleep(PrePlayTicks)
  /\ playLog' = Append(playLog, [clip |-> clip[1], t |-> clock'])
  /\ pc' = to
  /\ UNCHANGED << err, dacVars, loadVars, au, play_time, wav >>

\* the wait without the clip's own duration: time.sleep(1)
WaitGuardOnly(from, to) ==
  /\ pc = from
  /\ Sleep(GuardTicks)
  /\ pc' = to
  /\ UNCHANGED << err, dacVars, loadVars, playVars >>

\* time.sleep(play_time + 1)
Wait(from, to) ==
  /\ pc = from
  /\ Sleep(play_time + GuardTicks)
  /\ pc' = to
  /\ UNCHANGED << err, dacVars, loadVars, playVars >>

PlayAu == Play("loop_au", "wait_au", au)
WaitAu == Wait("wait_au", "loop_wav")
PlayWav == Play("loop_wav", "wait_wav", wav)
WaitWav == Wait("wait_wav", "loop_au")

---------------------------------------------------------------------------
Next ==
  \/ Startup
  \/ SetupBuses
  \/ DacInit
  \/ DacSpeakerOff
  \/ DacHeadphoneOn
  \/ DacVolume
  \/ DacHeadphoneVolume
  \/ DacConfigureClocks
  \/ DacFail
  \/ DacSettle
  \/ Stabilize
  \/ LoadOpen
  \/ ReadHeader
  \/ CheckHeader
  \/ AllocPcm
  \/ GenerateLut
  \/ SeekData
  \/ DecodeChunk
  \/ DecodeTruncated
  \/ LoadReturn
  \/ MakeRawSample
  \/ OpenWav
  \/ PlayAu
  \/ WaitAu
  \/ PlayWav
  \/ WaitWav

Spec == Init /\ [][Next]_vars

---------------------------------------------------------------------------
(* The whole program with a playback loop that is not cut off. The length  *)
(* of the sleeps of the loop is not counted here (each sleep returns, the  *)
(* clock stays), and the log of the sink keeps its last MaxPlays calls.    *)
(* The program is the only thread and nothing blocks it for ever: a step   *)
(* that can be taken is taken.                                             *)

LastPlays(log) == IF Len(log) > MaxPlays THEN Tail(log) ELSE log

\* time.sleep(0.5); audio.play(clip)
PlayOn(from, to, clip) ==
  /\ pc = from
  /\ playLog' = LastPlays(Append(playLog, [clip |-> clip[1], t |-> clock]))
  /\ pc' = to
  /\ UNCHANGED << err, clock, dacVars, loadVars, au, play_time, wav >>

\* time.sleep(play_time + 1)
WaitOn(from, to) ==
  /\ pc = from
  /\ pc' = to
  /\ UNCHANGED << err, clock, dacVars, loadVars, playVars >>

\* the end of the loop body going back to the WAV clip, not to the AU clip
WaitWavRepeat == WaitOn("wait_wav", "loop_wav")

PlayAuOn == PlayOn("loop_au", "wait_au", au)
WaitAuOn == WaitOn("wait_au", "loop_wav")
PlayWavOn == PlayOn("loop_wav", "wait_wav", wav)
WaitWavOn == WaitOn("wait_wav", "loop_au")

NextLive ==
  \/ Startup
  \/ SetupBuses
  \/ DacInit
  \/ DacSpeakerOff
  \/ DacHeadphoneOn
  \/ DacVolume
  \/ DacHeadphoneVolume
  \/ DacConfigureClocks
  \/ DacFail
  \/ DacSettle
  \/ Stabilize
  \/ LoadOpen
  \/ ReadHeader
  \/ CheckHeader
  \/ AllocPcm
  \/ GenerateLut
  \/ SeekData
  \/ DecodeChunk
  \/ DecodeTruncated
  \/ LoadReturn
  \/ MakeRawSample
  \/ OpenWav
  \/ PlayAuOn
  \/ WaitAuOn
  \/ PlayWavOn
  \/ WaitWavOn

SpecLive == Init /\ [][NextLive]_vars /\ WF_vars(NextLive)

---------------------------------------------------------------------------
(* The table builder alone: the loop of lines 107-115, one entry a step *)

InitLut ==
  /\ pc = "lut_loop"
  /\ err = ""
  /\ clock = 0
  /\ dacLog = << >>
  /\ dac = None
  /\ file = << >>
  /\ fpos = 0
  /\ ioLog = << >>
  /\ header = << >>
  /\ hdr = None
  /\ pcm = None
  /\ lut = << >>
  /\ i = 0
  /\ au = None
  /\ play_time = 0
  /\ wav = None
  /\ playLog = << >>

NextLut == LutStep

SpecLut == InitLut /\ [][NextLut]_vars

---------------------------------------------------------------------------
(* The playback part alone, for clips of up to MaxClipHalfSecs half        *)
(* seconds: it starts where load_au_file has just returned the buffer,     *)
(* after a bring-up whose sleeps returned on time.                         *)

ClipLens == { k * (TicksPerSecond \div 2) : k \in 1..MaxClipHalfSecs }

BringUpLog ==
  << [op |-> "TLV320DAC3100",    val |-> 0,    t |-> StartupTicks],
     [op |-> "speaker_output",   val |-> 0,    t |-> StartupTicks],
     [op |-> "headphone_output", val |-> 1,    t |-> StartupTicks],
     [op |-> "dac_volume",       val |-> -3,   t |-> StartupTicks],
     [op |-> "headphone_volume", val |-> 0,    t |-> StartupTicks],
     [op |-> "configure_clocks", val |-> 8000, t |-> StartupTicks],
     [op |-> "sleep", val |-> SettleTicks, t |-> StartupTicks + SettleTicks] >>

InitPlay ==
  /\ pc = "rawsample"
  /\ err = ""
  /\ clock = StartupTicks + SettleTicks + StabilizeTicks
  /\ dacLog = BringUpLog
  /\ dac = Some("TLV320DAC3100")
  /\ file = << >>
  /\ fpos = 0
  /\ ioLog = << >>
  /\ header = << >>
  /\ hdr = None
  /\ \E n \in ClipLens : pcm = Some([ k \in 1..n |-> 0 ])
  /\ lut = << >>
  /\ i = 0
  /\ au = None
  /\ play_time = 0
  /\ wav = None
  /\ playLog = << >>

NextPlay ==
  \/ MakeRawSample
  \/ OpenWav
  \/ PlayAu
  \/ WaitAu
  \/ PlayWav
  \/ WaitWav

SpecPlay == InitPlay /\ [][NextPlay]_vars

---------------------------------------------------------------------------
(* Vocabulary of the properties *)

\* the error kind the design gives each message of load_au_file
ErrorKind(msg) ==
  CASE msg = MsgShort     -> "FormatError"
    [] msg = MsgMagic     -> "FormatError"
    [] msg = MsgEncoding  -> "UnsupportedEncodingError"
    [] msg = MsgFormat    -> "UnsupportedFormatError"
    [] msg = MsgSize      -> "UnsupportedFormatError"
    [] msg = MsgTruncated -> "TruncatedDataError"
    [] msg = MsgDevice    -> "DeviceConfigError"
    [] OTHER              -> "none"

\* which of the five header checks a message belongs to, 0 for none
CheckOf(msg) ==
  CASE msg = MsgShort    -> 1
    [] msg = MsgMagic    -> 2
    [] msg = MsgEncoding -> 3
    [] msg = MsgFormat   -> 4
    [] msg = MsgSize     -> 5
    [] OTHER             -> 0

HeaderMsgs == { MsgShort, MsgMagic, MsgEncoding, MsgFormat, MsgSize }

\* load_au_file raised on the header / went on past the header checks
Rejected == pc = "crashed" /\ err \in HeaderMsgs
Accepted ==
  \/ pc \in { "au_alloc", "au_lut", "au_seek", "au_loop" }
  \/ pc = "crashed" /\ err = MsgTruncated

\* bytes 4k+1 .. 4k+4 of the file on disk
FileWord(k) == SubSeq(file, 4 * k + 1, 4 * k + 4)

\* the five checks of the design, stated on the bytes of the file
FailsCheck(k) ==
  CASE k = 1 -> Len(file) < 24
    [] k = 2 -> FileWord(0) # << 46, 115, 110, 100 >>
    [] k = 3 -> FileWord(3) # << 0, 0, 0, 1 >>
    [] k = 4 -> FileWord(4) # << 0, 0, 31, 64 >> \/ FileWord(5) # << 0, 0, 0, 1 >>
    [] k = 5 -> FileWord(2) = << 255, 255, 255, 255 >>

\* the first check, in the order 1..5, that the file fails; 0 when it passes all
FirstFailed ==
  IF \A k \in 1..5 : ~FailsCheck(k) THEN 0
  ELSE CHOOSE k \in 1..5 : FailsCheck(k) /\ \A j \in 1..(k - 1) : ~FailsCheck(j)

KindOfCheck == << "FormatError", "FormatError", "UnsupportedEncodingError",
                 "UnsupportedFormatError", "UnsupportedFormatError" >>

\* bytes of payload actually present from the data offset
Present == Max(0, Len(file) - Offset)

\* payload byte k (from 1) and its sample
PayloadByte(k) == file[Offset + k]
SampleOf(k) == lut[PayloadByte(k) + 1]

\* the read calls of the decode loop: those after the seek
Seeks == { n \in 1..Len(ioLog) : ioLog[n].op = "seek" }
ChunkReads ==
  { n \in 1..Len(ioLog) : ioLog[n].op = "read" /\ \E m \in Seeks : m < n }

\* the decode loop has ended normally: the next step is "return pcm"
LoopDone == pc = "au_loop" /\ ~(i < Size)

\* the whole payload decoded in one pass
SinglePass == [ k \in 1..Size |-> SampleOf(k) ]

---------------------------------------------------------------------------
(* C1: load_au_file rejects a header exactly when it fails one of the five *)
(* checks (24 bytes read, magic, encoding, rate and channels, size         *)
(* sentinel), and the error raised is the one of the first check, in that  *)
(* order, that fails, with the kind the design names for it; a header is   *)
(* accepted if and only if it passes all five.                             *)
C1_HeaderVerdict ==
  /\ Rejected => /\ FirstFailed # 0
                 /\ CheckOf(err) = FirstFailed
                 /\ ErrorKind(err) = KindOfCheck[FirstFailed]
  /\ Accepted => FirstFailed = 0
  /\ pc = "au_unpack" => ~FailsCheck(1)

\* a header wrong in its encoding and in its rate is rejected for the encoding
C1_Witness ==
  /\ Rejected
  /\ err = MsgEncoding
  /\ FailsCheck(4)
  /\ ~FailsCheck(2)

---------------------------------------------------------------------------
(* C2: for a header that passes the checks with size N and a file that     *)
(* holds at least N bytes from the data offset, the decode never raises,   *)
(* and when its loop ends the buffer has exactly N samples, sample k being *)
(* the table entry of payload byte k, whatever sizes the reads returned:   *)
(* the buffer equals the decode of the whole payload in one pass.          *)
C2_DecodeComplete ==
  (Accepted /\ Present >= Size) =>
    /\ err = ""
    /\ pc = "au_loop" =>
         /\ i <= Size
         /\ \A k \in 1..i : pcm[1][k] = SampleOf(k)
    /\ LoopDone =>
         /\ Len(pcm[1]) = Size
         /\ \A k \in 1..Size : pcm[1][k] = lut[PayloadByte(k) + 1]
         /\ pcm[1] = SinglePass

\* a payload of MaxSize bytes with different samples, decoded from more than
\* one read
C2_Witness ==
  /\ LoopDone
  /\ Size = MaxSize
  /\ Cardinality(ChunkReads) >= 2
  /\ \E j, k \in 1..Size : pcm[1][j] # pcm[1][k]

---------------------------------------------------------------------------
(* C3: when fewer bytes than size are present from the data offset, the    *)
(* decode raises the truncation error exactly when all the bytes present   *)
(* have been read and decoded, not before, and its loop never ends         *)
(* normally; the truncation error is raised if and only if a read of the   *)
(* loop returned no bytes (the loop reads only while i < size).            *)
C3_Truncated ==
  /\ (pc = "crashed" /\ err = MsgTruncated) =>
       /\ Present < Size
       /\ i = Present
       /\ fpos = Offset + Present
       /\ \A k \in 1..Present : pcm[1][k] = SampleOf(k)
       /\ \A k \in (Present + 1)..Size : pcm[1][k] = 0
  /\ (Accepted /\ Present < Size) => ~LoopDone
  /\ (err = MsgTruncated) <=> (\E n \in ChunkReads : ioLog[n].got = 0)
  /\ \A n \in ChunkReads : ioLog[n].got = 0 => (n = Len(ioLog) /\ i < Size)

\* a truncated payload some bytes of which were decoded before the error
C3_Witness ==
  /\ pc = "crashed"
  /\ err = MsgTruncated
  /\ i > 0
  /\ i = Present
  /\ Size = MaxSize

---------------------------------------------------------------------------
(* C4: the codec operations of configure_dac are always done in the one    *)
(* order reset, speaker off, headphone on, digital gain, analog gain,      *)
(* clocks, settle wait: what has been done is at every moment a prefix of  *)
(* that sequence (nothing skipped, repeated or re-entered), each operation *)
(* at its own position of the code, and both routing writes precede every  *)
(* volume write.                                                           *)
BringUpOrder ==
  << "TLV320DAC3100", "speaker_output", "headphone_output", "dac_volume",
     "headphone_volume", "configure_clocks", "sleep" >>

BringUpPcs ==
  << "dac_init", "dac_speaker", "dac_headphone", "dac_volume",
     "dac_hp_volume", "dac_clocks", "dac_settle" >>

Ops(log) == [ k \in 1..Len(log) |-> log[k].op ]

C4_BringUpOrder ==
  /\ Len(dacLog) <= Len(BringUpOrder)
  /\ Ops(dacLog) = SubSeq(BringUpOrder, 1, Len(dacLog))
  /\ \A k \in 1..Len(BringUpPcs) : pc = BringUpPcs[k] => Len(dacLog) = k - 1
  /\ \A v \in 1..Len(dacLog) :
       dacLog[v].op \in { "dac_volume", "headphone_volume" } =>
         /\ \E r \in 1..(v - 1) : dacLog[r].op = "speaker_output" /\ dacLog[r].val = 0
         /\ \E r \in 1..(v - 1) : dacLog[r].op = "headphone_output" /\ dacLog[r].val = 1
  /\ dac # None <=> Len(dacLog) = Len(BringUpOrder)

\* configure_dac has returned: all seven operations are done
C4_Witness ==
  /\ dac # None
  /\ Len(dacLog) = 7
  /\ pc = "stabilize"

---------------------------------------------------------------------------
(* C5: when the sink receives its first play call, configure_dac has       *)
(* returned, its settle wait after the clock configuration lasted at least *)
(* 0.35 s (2800 ticks) and ended before the call, and load_au_file has     *)
(* returned the buffer the AU clip is made of.                             *)
LoopPcs == { "loop_au", "wait_au", "loop_wav", "wait_wav" }

C5_PlayAfterBringUpAndDecode ==
  playLog # << >> =>
    /\ dac # None
    /\ Ops(dacLog) = BringUpOrder
    /\ dacLog[7].val >= 2800
    /\ dacLog[7].t - dacLog[6].t >= 2800
    /\ dacLog[7].t <= playLog[1].t
    /\ pc \in LoopPcs
    /\ err = ""
    /\ pcm # None
    /\ au # None
    /\ au[1].dur = Len(pcm[1])
    /\ file = << >>

\* the first play call has just been made
C5_Witness ==
  /\ Len(playLog) = 1
  /\ pc = "wait_au"
  /\ Len(pcm[1]) = MaxSize

---------------------------------------------------------------------------
(* C6: no two clips are active on the sink at once: every clip started has *)
(* played for its own duration before the next play call is made. Stated   *)
(* for the AU clip and for the WAV clip, whose length is the WAV file's.   *)
C6_NoOverlap ==
  \A k \in 1..(Len(playLog) - 1) :
    playLog[k].t + playLog[k].clip.dur <= playLog[k + 1].t

\* the same for the decoded AU clip alone, whose wait is made of its length
C6_AuNotCutOff ==
  \A k \in 1..(Len(playLog) - 1) :
    playLog[k].clip.name = "au" =>
      playLog[k].t + playLog[k].clip.dur <= playLog[k + 1].t

---------------------------------------------------------------------------
(* C7: after the play call for the decoded clip of N samples at 8000 Hz,   *)
(* the next play call comes at least N / 8000 + 1 seconds later, that is   *)
(* N + 8000 ticks, in every turn of the loop.                              *)
C7_PlaybackTiming ==
  \A k \in 1..(Len(playLog) - 1) :
    playLog[k].clip.name = "au" =>
      playLog[k + 1].t - playLog[k].t >= Len(pcm[1]) + 8000

\* the AU clip of one second was started, and the WAV clip after it
C7_Witness ==
  /\ Len(playLog) >= 2
  /\ playLog[1].clip.name = "au"
  /\ playLog[2].clip.name = "wav"
  /\ Len(pcm[1]) = 8000

---------------------------------------------------------------------------
(* C8: every entry of the table is the u-law expansion of its index:       *)
(* with u the inverted byte, the magnitude is                              *)
(* ((u mod 16) * 8 + 132) * 2^((u div 16) mod 8) - 132, negated when u has *)
(* bit 7 set; the entries of two bytes that differ in bit 7 alone are      *)
(* opposite; and a byte whose inverted low seven bits are smaller has the  *)
(* strictly smaller magnitude.                                             *)
MuLawExpand(b) ==
  LET u == 255 - b
      s == ((u % 16) * 8 + 132) * Pow2((u \div 16) % 8) - 132
  IN  IF u >= 128 THEN -s ELSE s

\* b XOR 0x80, and ~b & 0x7F
FlipSign(b) == IF b >= 128 THEN b - 128 ELSE b + 128
Magnitude7(b) == 127 - (b % 128)

Abs(x) == IF x < 0 THEN -x ELSE x

C8_TableClosedForm ==
  /\ \A k \in 1..Len(lut) : lut[k] = MuLawExpand(k - 1)
  /\ Len(lut) = 256 =>
       /\ \A b \in 0..255 : lut[FlipSign(b) + 1] = -lut[b + 1]
       /\ \A a, b \in 0..255 :
            Magnitude7(a) < Magnitude7(b) => Abs(lut[a + 1]) < Abs(lut[b + 1])

\* the whole table is built, with its two extreme entries
C8_Witness ==
  /\ Len(lut) = 256
  /\ lut[1] = -32124
  /\ lut[129] = 32124
  /\ lut[256] = 0

---------------------------------------------------------------------------
(* C9: when load_au_file raises on one of the five header checks, the only *)
(* file operation done is the read of the header from position 0: the PCM  *)
(* buffer is not allocated, the table is not built, no seek was made, no   *)
(* byte after the header was read, nothing is decoded and no clip exists.  *)
C9_HeaderBeforePayload ==
  Rejected =>
    /\ pcm = None
    /\ lut = << >>
    /\ Seeks = { }
    /\ Len(ioLog) = 1
    /\ ioLog[1] = [op |-> "read", pos |-> 0, req |-> 24, got |-> Len(header)]
    /\ fpos = Len(header)
    /\ fpos <= 24
    /\ i = 0
    /\ au = None
    /\ playLog = << >>

\* a file rejected by the last check, the size sentinel, with payload bytes
\* after its header
C9_Witness ==
  /\ Rejected
  /\ err = MsgSize
  /\ Len(file) > 24

---------------------------------------------------------------------------
(* C10: a failure ends the run: once a codec operation or the decode has   *)
(* raised, the program takes no further step (no later bring-up step, no   *)
(* retry), and no play call is ever made in a run that failed.             *)
C10_FailureFatal ==
  /\ [](err # "" => (pc = "crashed" /\ playLog = << >> /\ au = None))
  /\ [][err = ""]_vars

\* the codec raised in the middle of the bring-up
C10_Witness ==
  /\ pc = "crashed"
  /\ err = MsgDevice
  /\ Len(dacLog) = 3
  /\ dac = None

---------------------------------------------------------------------------
(* C11: once playback has started the play calls follow the order of the   *)
(* clips round and round: the first call starts the AU clip, every later   *)
(* call starts the clip that the call before it did not (AU, WAV, AU, ...),*)
(* so no clip is started twice in a row and the loop restarts from the AU  *)
(* clip after the WAV clip; and each of the two clips is started again and *)
(* again, for ever.                                                        *)
LastClip == playLog[Len(playLog)].clip.name

NextInOrder ==
  IF playLog = << >> THEN "au"
  ELSE IF LastClip = "au" THEN "wav" ELSE "au"

C11_LoopsForever ==
  /\ [][playLog' # playLog => LastClip' = NextInOrder]_vars
  /\ [](pc = "wait_au" => (playLog # << >> /\ LastClip = "au"))
  /\ [](pc = "wait_wav" => (playLog # << >> /\ LastClip = "wav"))
  /\ [](playLog # << >> => <>(pc = "wait_au"))
  /\ [](playLog # << >> => <>(pc = "wait_wav"))

\* more than MaxPlays calls were made: the oldest kept is a start of the WAV
\* clip, the newest a start of the AU clip after it
C11_Witness ==
  /\ Len(playLog) = MaxPlays
  /\ playLog[1].clip.name = "wav"
  /\ pc = "wait_au"
  /\ \E k \in 1..Len(playLog) : playLog[k].clip.name = "au"

---------------------------------------------------------------------------
(* C12: the PCM buffer has exactly size samples and is allocated before    *)
(* the seek and before the first read of the payload; in the decode loop   *)
(* 0 <= i <= size, every read is made at sample i and asks for at most     *)
(* min(1024, size - i) bytes, and the samples it yields are written below  *)
(* index size: nothing is read past the declared payload, nothing written  *)
(* outside the buffer.                                                     *)
C12_DecodeBounds ==
  /\ (Seeks # { } \/ ChunkReads # { }) => pcm # None
  /\ pc \in { "au_lut", "au_seek", "au_loop" } =>
       (pcm # None /\ Len(pcm[1]) = Size)
  /\ (pc = "au_loop" \/ (pc = "crashed" /\ err = MsgTruncated)) =>
       /\ 0 <= i
       /\ i <= Size
       /\ fpos = Offset + i
       /\ Len(pcm[1]) = Size
  /\ \A n \in ChunkReads :
       LET at == ioLog[n].pos - Offset IN
         /\ 0 <= at
         /\ 1 <= ioLog[n].req
         /\ ioLog[n].req <= 1024
         /\ ioLog[n].req <= Size - at
         /\ ioLog[n].got <= ioLog[n].req
         /\ \A j \in 0..(ioLog[n].got - 1) : at + j < Size
         /\ ioLog[n].pos + ioLog[n].req <= Offset + Size

\* a payload longer than a chunk: its first read asked for 1024 bytes, fewer
\* than were left, and the loop went on to the end
C12_Witness ==
  /\ LoopDone
  /\ Size > 1024
  /\ \E n \in ChunkReads :
       /\ ioLog[n].pos = Offset
       /\ ioLog[n].req = 1024
       /\ ioLog[n].got = 1024
  /\ Cardinality(ChunkReads) >= 2

---------------------------------------------------------------------------
(* C13: the decode loop ends: a turn that stays in the loop adds at least  *)
(* one to i, which never passes size, the other turns leave it by the      *)
(* truncation error or by the return; at most size reads return data; and  *)
(* a run that is in the loop gets to the return or to the error.           *)
DataReads == { n \in ChunkReads : ioLog[n].got > 0 }

C13_LoopTerminates ==
  /\ [][(pc = "au_loop" /\ pc' = "au_loop") => (i' >= i + 1 /\ i' <= Size)]_vars
  /\ [][pc = "au_loop" =>
          \/ pc' = "au_loop"
          \/ pc' = "rawsample" /\ pcm' = pcm /\ err' = ""
          \/ pc' = "crashed" /\ err' = MsgTruncated]_vars
  /\ [](ChunkReads # { } => Cardinality(DataReads) <= Size)
  /\ [](pc = "au_loop" => <>(pc = "rawsample" \/ pc = "crashed"))

\* the longest decode of a small file: as many reads as the payload has bytes
C13_Witness ==
  /\ LoopDone
  /\ Size = MaxSize
  /\ Cardinality(DataReads) = Size

---------------------------------------------------------------------------
(* C14: every value computed for the table is a signed 16-bit integer, in  *)
(* -32768 .. 32767, and the largest magnitude of the table is 32124: no    *)
(* store into the 'h' array overflows.                                     *)
C14_TableFitsInt16 ==
  /\ \A k \in 1..Len(lut) :
       /\ -32768 <= lut[k]
       /\ lut[k] <= 32767
       /\ Abs(lut[k]) <= 32124
  /\ Len(lut) = 256 => \E k \in 1..256 : Abs(lut[k]) = 32124

\* the whole table, with the largest magnitude on either side
C14_Witness ==
  /\ Len(lut) = 256
  /\ \E k \in 1..256 : lut[k] = 32124
  /\ \E k \in 1..256 : lut[k] = -32124

\* the state the playback specification starts in, but for the clip's length,
\* is a state of the whole program
InitPlayShape ==
  /\ pc = "rawsample"
  /\ clock = StartupTicks + SettleTicks + StabilizeTicks
  /\ dacLog = BringUpLog
  /\ dac = Some("TLV320DAC3100")
  /\ pcm # None
  /\ Len(pcm[1]) = MaxSize
  /\ << file, ioLog, header, lut >> = << << >>, << >>, << >>, << >> >>
  /\ << err, fpos, hdr, i, au, play_time, wav, playLog >>
       = << "", 0, None, 0, None, 0, None, << >> >>

====
